---- MODULE Spec2Model ----
(***************************************************************************)
(* A model of src/src/service.ts (class Service):                          *)
(*   - the lazy loading of the external engines (wabt, Binaryen, showdown) *)
(*     and the post-processors built on them            (Spec)             *)
(*   - the compile calls and the artifact resolver      (SpecCompile)      *)
(*   - loadProject and its nested deserialize            (SpecProject)     *)
(* JavaScript runs each synchronous segment of a function to completion,   *)
(* so one action is one such segment: a call up to its first await, or the *)
(* continuation that a settled promise resumes.                            *)
(***************************************************************************)
EXTENDS Naturals, Sequences, FiniteSets, TLC

VARIABLES
  binding,    \* the process-wide engine globals: global[e], Undefined or an instance
  call,       \* the post-processor calls: operation, argument, position
  flavor,     \* the flavor set in the global options of the bound showdown
  tree,       \* the files under the source's parent: the source file, then
              \* the files the post-processors created
  compile,    \* the compile call: entry point, languages, position, outcome
  load        \* the loadProject call: the input tree, the fetches, the project

vars == <<binding, call, flavor, tree, compile, load>>

(***************************************************************************)
(* Bounds                                                                  *)
(***************************************************************************)
MaxCalls == 2          \* post-processor calls in one run
NSub == 2              \* files in the input tree's directory

Calls == 1..MaxCalls

(***************************************************************************)
(* JavaScript values                                                       *)
(***************************************************************************)
Undefined == [t |-> "undefined"]
Null == [t |-> "null"]
Str(s) == [t |-> "string", v |-> s]
Buf(s) == [t |-> "buffer", v |-> s]

\* ToBoolean: undefined, null and the empty string are falsy; a non-empty
\* string and every object (an ArrayBuffer of any length) are truthy.
Truthy(v) == v # Undefined /\ v # Null /\ v # Str("")

Range(q) == {q[i] : i \in DOMAIN q}

(***************************************************************************)
(* Service.lazyLoad and the post-processors                                *)
(***************************************************************************)
Engines == {"wabt", "showdown", "Binaryen"}

Ops == {"disassembleWasmWithWabt", "assembleWatWithWabt",
        "disassembleWasmWithBinaryen", "convertWasmToAsmWithBinaryen",
        "compileMarkdownToHtml"}

TreeOps == Ops \ {"compileMarkdownToHtml"}

\* the engine global an operation tests and uses
EngineOf(op) ==
  CASE op \in {"disassembleWasmWithWabt", "assembleWatWithWabt"} -> "wabt"
    [] op \in {"disassembleWasmWithBinaryen", "convertWasmToAsmWithBinaryen"} -> "Binaryen"
    [] op = "compileMarkdownToHtml" -> "showdown"
    [] OTHER -> "none"

\* the uri an operation passes to Service.lazyLoad
UriOf(op) ==
  CASE EngineOf(op) = "wabt" -> "lib/libwabt.js"
    [] EngineOf(op) = "Binaryen" -> "lib/binaryen.js"
    [] EngineOf(op) = "showdown" -> "lib/showdown.min.js"

ExportsNoDefault(uri) ==
  CASE uri = "lib/showdown.min.js" -> <<"showdown">>
    [] uri = "lib/binaryen.js" -> <<"Binaryen">>
    [] OTHER -> <<"wabt">>

\* the switch of Service.lazyLoad: the export names of a uri; <<>> stands for
\* the default branch, which throws
Exports(uri) ==
  CASE uri = "lib/libwabt.js" -> <<"wabt">>
    [] uri = "lib/showdown.min.js" -> <<"showdown">>
    [] uri = "lib/binaryen.js" -> <<"Binaryen">>
    [] OTHER -> <<>>

\* the uris Service.lazyLoad is called with: the three of the switch and one
\* that is not in it
Uris == {"lib/libwabt.js", "lib/showdown.min.js", "lib/binaryen.js", "lib/unknown.js"}

\* the engine global a load of uri writes ("none" for a uri not in the switch)
EngineOfUri(uri) == IF Exports(uri) = <<>> THEN "none" ELSE Exports(uri)[1]

\* typeof X === "undefined", the guard in front of every Service.lazyLoad call
NeedsLoadAlways(e) == TRUE
NeedsLoadNever(e) == FALSE
NeedsLoad(e) == binding[e] = 0

SuffixWat(op) == ".wat"

\* the name suffix, the file type and the engine named in the description of
\* the file a tree-writing post-processor creates
Suffix(op) ==
  CASE op = "disassembleWasmWithWabt" -> ".wat"
    [] op = "assembleWatWithWabt" -> ".wasm"
    [] op = "disassembleWasmWithBinaryen" -> ".wat"
    [] op = "convertWasmToAsmWithBinaryen" -> ".asm.js"

Verb(op) ==
  CASE op \in {"disassembleWasmWithWabt", "disassembleWasmWithBinaryen"} -> "Disassembled from "
    [] op = "assembleWatWithWabt" -> "Assembled from "
    [] op = "convertWasmToAsmWithBinaryen" -> "Converted from "

Using(op) == IF EngineOf(op) = "wabt" THEN " using Wabt." ELSE " using Binaryen."

\* The source file a post-processor is given (file.name, file.getData());
\* compileMarkdownToHtml is given its content as src. What the engines do
\* with a content is fixed by its kind: "bad" cannot be read or parsed,
\* "invalid" parses and fails validation, "unprintable" is read and cannot
\* be emitted.
SrcNames == {"main"}
SrcData == {"good", "bad", "invalid", "unprintable"}

SourceFile(name, data) == [name |-> name, description |-> "", data |-> data, by |-> 0]

\* the statements of a post-processor from its first use of the engine on,
\* in the order the code executes them
PipelineNoValidate(op) ==
  CASE op = "disassembleWasmWithWabt" ->
         <<"readWasm", "generateNames", "applyNames", "toText", "newFile", "setData">>
    [] op = "assembleWatWithWabt" ->
         <<"parseWat", "resolveNames", "toBinary", "newFile", "setData">>
    [] op = "disassembleWasmWithBinaryen" ->
         <<"readBinary", "newFile", "emitText", "setData">>
    [] op = "convertWasmToAsmWithBinaryen" ->
         <<"readBinary", "emitAsmjs", "newFile", "setData">>
    [] op = "compileMarkdownToHtml" ->
         <<"Converter", "setFlavor", "makeHtml">>

Pipeline(op) ==
  CASE op = "disassembleWasmWithWabt" ->
         <<"readWasm", "generateNames", "applyNames", "toText", "newFile", "setData">>
    [] op = "assembleWatWithWabt" ->
         <<"parseWat", "resolveNames", "validate", "toBinary", "newFile", "setData">>
    [] op = "disassembleWasmWithBinaryen" ->
         <<"readBinary", "newFile", "emitText", "setData">>
    [] op = "convertWasmToAsmWithBinaryen" ->
         <<"readBinary", "emitAsmjs", "newFile", "setData">>
    [] op = "compileMarkdownToHtml" ->
         <<"Converter", "setFlavor", "makeHtml">>

\* the engine calls that throw for a content
ThrowsOn(step, data) ==
  \/ step \in {"readWasm", "parseWat", "readBinary"} /\ data = "bad"
  \/ step = "validate" /\ data = "invalid"
  \/ step \in {"toText", "toBinary", "emitText", "emitAsmjs", "makeHtml"}
       /\ data = "unprintable"

\* the index of the statement that throws, 0 when none does
FailsAt(op, data) ==
  LET P == Pipeline(op)
      bad == {i \in DOMAIN P : ThrowsOn(P[i], data)}
  IN IF bad = {} THEN 0 ELSE CHOOSE i \in bad : \A j \in bad : i <= j

\* the statements reached (the one that throws included) and those completed
Reached(op, data) ==
  IF FailsAt(op, data) = 0 THEN Pipeline(op)
  ELSE SubSeq(Pipeline(op), 1, FailsAt(op, data))

Completed(op, data) ==
  IF FailsAt(op, data) = 0 THEN Pipeline(op)
  ELSE SubSeq(Pipeline(op), 1, FailsAt(op, data) - 1)

EngineThrows(op, data) == FailsAt(op, data) # 0
Transform(op, data) == <<op, data>>

\* showdown: new showdown.Converter(options) copies the global options as
\* they are when it is called, showdown.setFlavor(name) changes the global
\* options only; makeHtml renders with the converter's own options
Html(src, converterFlavor, tables) == <<"html", src, converterFlavor, tables>>

ConverterFlavor(op) ==
  LET P == Pipeline(op) IN
  IF \E i, j \in DOMAIN P : i < j /\ P[i] = "setFlavor" /\ P[j] = "Converter"
  THEN "github" ELSE flavor

IdleCall ==
  [op |-> "none", uri |-> "none", name |-> "none", data |-> "none", pc |-> "idle",
   readyAtStart |-> FALSE, retry |-> FALSE, fetched |-> FALSE,
   evaluated |-> FALSE, err |-> "none", inst |-> 0, steps |-> <<>>,
   out |-> <<>>]

\* a load of engine e has failed before
LoadFailedBefore(e) ==
  \E c \in Calls : call[c].err = "load" /\ EngineOfUri(call[c].uri) = e

\* file.parent.newFile(name, type): a new, empty file under the parent
NewFile(t, name, c) ==
  Append(t, [name |-> name, description |-> "", data |-> <<>>, by |-> c])

\* the file that output.description and output.setData write: the one
\* newFile returned
OutputIndexFirst(t) == 1
OutputIndex(t) == Len(t)

\* the files under the parent after the completed statements of a
\* tree-writing post-processor
TreeAfter(c, r, done, data) ==
  IF "newFile" \notin Range(done) THEN tree
  ELSE LET t1 == NewFile(tree, r.name \o Suffix(r.op), c)
           i == OutputIndex(t1)
           t2 == [t1 EXCEPT ![i].description = Verb(r.op) \o r.name \o Using(r.op)]
       IN IF "setData" \in Range(done)
          THEN [t2 EXCEPT ![i].data = Transform(r.op, data)]
          ELSE t2

\* The engine invocation and what follows it in a post-processor. The wabt
\* operations have read file.getData() at the call, the Binaryen ones read
\* it here. A global that is still undefined makes the first use of the
\* engine throw.
Invoke(c, r) ==
  LET e == EngineOf(r.op)
      data == IF e = "Binaryen" THEN tree[1].data ELSE r.data
      done == Completed(r.op, data)
  IN
  IF binding[e] = 0
  THEN /\ call' = [call EXCEPT ![c] = [r EXCEPT !.pc = "failed", !.err = "unbound"]]
       /\ tree' = tree
       /\ flavor' = flavor
  ELSE /\ call' = [call EXCEPT ![c] =
                    [r EXCEPT !.pc = IF EngineThrows(r.op, data) THEN "failed" ELSE "done",
                              !.err = IF EngineThrows(r.op, data) THEN "engine" ELSE "none",
                              !.data = data,
                              !.inst = binding[e],
                              !.steps = Reached(r.op, data),
                              !.out = IF EngineThrows(r.op, data) THEN <<>>
                                      ELSE IF r.op = "compileMarkdownToHtml"
                                      THEN Html(data, ConverterFlavor(r.op), TRUE)
                                      ELSE Transform(r.op, data)]]
       /\ tree' = TreeAfter(c, r, done, data)
       /\ flavor' = IF "setFlavor" \in Range(done) THEN "github" ELSE flavor

LazyLoadOfShared(r, uri) ==
  IF Exports(uri) = <<>>
  THEN [r EXCEPT !.pc = "failed", !.err = "uri"]
  ELSE IF \E d \in Calls : call[d].uri = uri /\ call[d].pc \in {"fetching", "evaluating"}
  THEN [r EXCEPT !.pc = "waiting"]
  ELSE [r EXCEPT !.pc = "fetching", !.fetched = TRUE]

\* Service.lazyLoad(uri) up to its return: the switch, then the fetch
LazyLoadOf(r, uri) ==
  IF Exports(uri) = <<>>
  THEN [r EXCEPT !.pc = "failed", !.err = "uri"]
  ELSE [r EXCEPT !.pc = "fetching", !.fetched = TRUE]

\* A post-processor is called: the guard, and either Service.lazyLoad (the
\* fetch is issued, the call awaits the load) or the engine at once.
Start(c, op, name, data) ==
  /\ call[c].pc = "idle"
  /\ \A d \in Calls : d < c => call[d].pc # "idle"
  /\ name = tree[1].name /\ data = tree[1].data
  /\ LET e == EngineOf(op)
         r == [IdleCall EXCEPT !.op = op, !.uri = UriOf(op),
                               !.name = name, !.data = data,
                               !.readyAtStart = (binding[e] # 0),
                               !.retry = LoadFailedBefore(e)]
     IN IF NeedsLoad(e)
        THEN /\ call' = [call EXCEPT ![c] = LazyLoadOf(r, UriOf(op))]
             /\ tree' = tree
             /\ flavor' = flavor
        ELSE Invoke(c, r)
  /\ UNCHANGED <<binding, compile, load>>

\* Service.lazyLoad is called directly
LazyLoad(c, uri) ==
  /\ call[c].pc = "idle"
  /\ \A d \in Calls : d < c => call[d].pc # "idle"
  /\ LET e == EngineOfUri(uri)
         r == [IdleCall EXCEPT !.op = "lazyLoad", !.uri = uri,
                               !.readyAtStart = (e # "none" /\ binding[e] # 0),
                               !.retry = LoadFailedBefore(e)]
     IN call' = [call EXCEPT ![c] = LazyLoadOf(r, uri)]
  /\ UNCHANGED <<binding, flavor, tree, compile, load>>

\* fetch(baseUrl + uri) rejects, or res.text() does
FetchRejects(c) ==
  /\ call[c].pc = "fetching"
  /\ call' = [call EXCEPT ![c].pc = "failed", ![c].err = "load"]
  /\ UNCHANGED <<binding, flavor, tree, compile, load>>

\* the response and its text arrive: the second then-callback is scheduled
FetchResolves(c) ==
  /\ call[c].pc = "fetching"
  /\ call' = [call EXCEPT ![c].pc = "evaluating"]
  /\ UNCHANGED <<binding, flavor, tree, compile, load>>

\* exports.forEach((e, i) => global[e] = exportsObjs[i]), reached only when
\* new Function(...) and code() have not thrown; the instance a load binds is
\* named after the call that loaded it
Written(c, uri) ==
  [e \in Engines |->
     IF \E i \in DOMAIN Exports(uri) : Exports(uri)[i] = e THEN c ELSE binding[e]]

BindAlways(c, uri, ok) == Written(c, uri)
Bind(c, uri, ok) == IF ok THEN Written(c, uri) ELSE binding

\* the then-callback of Service.lazyLoad: new Function(res + ...), code(),
\* and the writes of the globals
Evaluate(c, ok) ==
  /\ call[c].pc = "evaluating"
  /\ binding' = Bind(c, call[c].uri, ok)
  /\ flavor' = IF binding'["showdown"] # binding["showdown"] THEN "vanilla" ELSE flavor
  /\ call' = [call EXCEPT ![c].evaluated = TRUE,
                          ![c].pc = IF ~ok THEN "failed"
                                    ELSE IF call[c].op = "lazyLoad" THEN "done"
                                    ELSE "loaded",
                          ![c].err = IF ok THEN "none" ELSE "load"]
  /\ UNCHANGED <<tree, compile, load>>

\* the post-processor resumes after await Service.lazyLoad(...)
Resume(c) ==
  /\ call[c].pc = "loaded"
  /\ Invoke(c, call[c])
  /\ UNCHANGED <<binding, compile, load>>

(***************************************************************************)
(* The compile calls: compileFile, compileFileWithBindings, compileFiles   *)
(***************************************************************************)
Wasm == "wasm"                                  \* Language.Wasm
FromLanguages == {"cpp", "rust"}
ToLanguages == {Wasm, "x86"}
Entries == {"compileFile", "compileFileWithBindings", "compileFiles"}

expectedOutputFilename == "a.wasm"
expectedWasmBindgenJsFilename == "wasm_bindgen.js"

\* the backend's responses: success, console, and items, which is absent
\* (Undefined) or maps output names to items with an optional content
OutNames == {expectedOutputFilename, expectedWasmBindgenJsFilename, "a.wasm.map"}
Contents == {Undefined, Str(""), Str("text"), Buf("")}
Consoles == {"", "error: expected ';'"}
ItemMaps == UNION {[D -> [content : Contents]] : D \in SUBSET OutNames}
Responses ==
  [success : BOOLEAN, console : Consoles, items : ItemMaps \cup {Undefined}]

\* obj[key] of a JavaScript object used as a map
Get(obj, key) == IF key \in DOMAIN obj THEN obj[key] ELSE Undefined

\* the loop over Object.entries(result.items): the entries whose content is
\* truthy, each under its name
OutputFiles(items) ==
  [n \in {m \in DOMAIN items : Truthy(items[m].content)} |-> items[n].content]

\* compileFiles once service.compile has answered: the success test, then
\* the loop (Object.entries(undefined) throws a TypeError)
CompileFilesUnchecked(result) ==
  IF result.items = Undefined
  THEN [ok |-> FALSE, error |-> "TypeError", value |-> Undefined]
  ELSE [ok |-> TRUE, error |-> "none", value |-> OutputFiles(result.items)]

CompileFilesResult(result) ==
  IF ~result.success
  THEN [ok |-> FALSE, error |-> result.console, value |-> Undefined]
  ELSE IF result.items = Undefined
       THEN [ok |-> FALSE, error |-> "TypeError", value |-> Undefined]
       ELSE [ok |-> TRUE, error |-> "none", value |-> OutputFiles(result.items)]

\* compileFileWithBindings after await Service.compileFiles: the output
\* object, with the key wasm always and wasmBindgenJs when it is truthy
WithBindingsAlways(result) ==
  [k \in {"wasm", "wasmBindgenJs"} |->
     IF k = "wasm" THEN Get(result, expectedOutputFilename)
     ELSE Get(result, expectedWasmBindgenJsFilename)]

WithBindings(result) ==
  IF Truthy(Get(result, expectedWasmBindgenJsFilename))
  THEN [k \in {"wasm", "wasmBindgenJs"} |->
          IF k = "wasm" THEN Get(result, expectedOutputFilename)
          ELSE Get(result, expectedWasmBindgenJsFilename)]
  ELSE [k \in {"wasm"} |-> Get(result, expectedOutputFilename)]

\* the check at the head of compileFileWithBindings, which compileFile
\* reaches too and compileFiles does not
TargetRejected(entry, to) ==
  entry \in {"compileFile", "compileFileWithBindings"} /\ to # Wasm

NoResponse == [success |-> FALSE, console |-> "none", items |-> Undefined]

IdleCompile ==
  [pc |-> "idle", entry |-> "none", from |-> "none", to |-> "none",
   serviceRequested |-> FALSE, sent |-> FALSE, answered |-> FALSE,
   resp |-> NoResponse, files |-> Undefined, value |-> Undefined,
   error |-> "none"]

\* a compile call up to its first await: the target check, then
\* createCompilerService(from, to)
CompileCall(entry, from, to) ==
  /\ compile.pc = "idle"
  /\ LET r == [compile EXCEPT !.entry = entry, !.from = from, !.to = to] IN
     compile' =
       IF TargetRejected(entry, to)
       THEN [r EXCEPT !.pc = "failed",
                      !.error = "Only wasm target is supported, but \"" \o to
                                  \o "\" was found"]
       ELSE [r EXCEPT !.pc = "resolving", !.serviceRequested = TRUE]
  /\ UNCHANGED <<binding, call, flavor, tree, load>>

\* createCompilerService resolves: the input is built and service.compile
\* sends it to the backend
ServiceResolves ==
  /\ compile.pc = "resolving"
  /\ compile' = [compile EXCEPT !.pc = "compiling", !.sent = TRUE]
  /\ UNCHANGED <<binding, call, flavor, tree, load>>

\* createCompilerService rejects (no service for the language pair)
ServiceRejects ==
  /\ compile.pc = "resolving"
  /\ compile' = [compile EXCEPT !.pc = "failed", !.error = "no service"]
  /\ UNCHANGED <<binding, call, flavor, tree, load>>

\* service.compile rejects (the request fails)
CompileRejects ==
  /\ compile.pc = "compiling"
  /\ compile' = [compile EXCEPT !.pc = "failed", !.error = "request failed"]
  /\ UNCHANGED <<binding, call, flavor, tree, load>>

\* service.compile answers: the rest of compileFiles and, through it, of
\* compileFileWithBindings and compileFile
CompileAnswers(result) ==
  /\ compile.pc = "compiling"
  /\ LET got == CompileFilesResult(result)
         r == [compile EXCEPT !.resp = result, !.answered = TRUE] IN
     compile' =
       IF ~got.ok
       THEN [r EXCEPT !.pc = "failed", !.error = got.error]
       ELSE [r EXCEPT !.pc = "done", !.files = got.value,
                      !.value = CASE compile.entry = "compileFiles" -> got.value
                                  [] compile.entry = "compileFileWithBindings" ->
                                       WithBindings(got.value)
                                  [] compile.entry = "compileFile" ->
                                       WithBindings(got.value)["wasm"]]
  /\ UNCHANGED <<binding, call, flavor, tree, load>>

InitCompile == compile = IdleCompile
(***************************************************************************)
(* Service.loadProject and its nested deserialize                          *)
(***************************************************************************)
\* The input tree. A node is named by its index path: <<i>> is the i-th
\* top-level child, <<2, i>> the i-th child of the directory at <<2>>.
\*   { name: "Project", directory: "proj",
\*     children: [ main.c, src/[ a.c, b.c, ... ], README.md ] }
JsonName == "Project"
JsonDirectory == "proj"
TopNames == <<"main.c", "src", "README.md">>
SubPool == <<"a.c", "b.c", "c.c", "d.c">>

DirNode == <<2>>
TopNodes == [i \in DOMAIN TopNames |-> <<i>>]
SubNodes == [i \in 1..NSub |-> <<2, i>>]
FileNodes == (Range(TopNodes) \ {DirNode}) \cup Range(SubNodes)
Nodes == FileNodes \cup {DirNode}

\* the files in the order deserialize reaches them
FileOrder == <<TopNodes[1]>> \o SubNodes \o <<TopNodes[3]>>

NodeName(n) == IF Len(n) = 1 THEN TopNames[n[1]] ELSE SubPool[n[2]]

\* the basePath deserialize is called with for node n
BasePath(n) ==
  IF Len(n) = 1 THEN "templates/" \o JsonDirectory
  ELSE ("templates/" \o JsonDirectory) \o "/" \o NodeName(DirNode)

Url(n) == BasePath(n) \o "/" \o NodeName(n)

\* what the server answers for a path
ServerText(url) == Str("text of " \o url)

\* json.data of a file node: absent, null, or a string
DataValues == {Undefined, Null, Str(""), Str("hi")}

\* the three branches of deserialize for a file node
BranchOf(data) ==
  IF Truthy(data) THEN "inline"
  ELSE IF data = Null THEN "empty"
  ELSE "fetch"

NoObj == [t |-> "none"]
FileObj(n, data) == [t |-> "file", name |-> NodeName(n), data |-> data]
DirObj(n, children) == [t |-> "directory", name |-> NodeName(n), children |-> children]

PromiseAllByCompletion(kids, settled, objs) ==
  LET q == SelectSeq(settled, LAMBDA n : n \in Range(kids))
  IN [i \in DOMAIN q |-> objs[q[i]]]

\* Promise.all over the promises of the nodes in kids: the values in the
\* order of kids, whatever the order (settled) in which they were fulfilled
PromiseAll(kids, settled, objs) == [i \in DOMAIN kids |-> objs[kids[i]]]

\* Directory.addFile / Project.addFile for each value, in turn
AddFiles(children, values) == children \o values

IdleLoad ==
  [pc |-> "idle", data |-> [n \in FileNodes |-> Undefined], requests |-> {},
   pending |-> {}, rejected |-> {}, settled |-> <<>>,
   objs |-> [n \in Nodes |-> NoObj],
   project |-> [name |-> "", children |-> <<>>]]

SettleLenient(l) ==
  LET has(n) == l.objs[n] # NoObj
      dirDone == l.objs[DirNode] = NoObj
                   /\ \A n \in Range(SubNodes) : has(n) \/ n \in l.rejected
      l1 == IF dirDone
            THEN [l EXCEPT !.objs[DirNode] =
                             DirObj(DirNode,
                                    PromiseAll(SelectSeq(SubNodes, has), l.settled, l.objs)),
                           !.settled = Append(@, DirNode)]
            ELSE l
      has1(n) == l1.objs[n] # NoObj
      topDone == l1.pc = "loading"
                   /\ \A n \in Range(TopNodes) : has1(n) \/ n \in l1.rejected
  IN IF topDone
     THEN [l1 EXCEPT !.pc = "done",
                     !.project.children =
                        PromiseAll(SelectSeq(TopNodes, has1), l1.settled, l1.objs)]
     ELSE l1

\* The promise reactions that run once file promises have settled: the
\* directory's await of Promise.all, then the top-level one in loadProject.
\* l is the load record after the file promises changed.
Settle(l) ==
  LET dirOpen == l.objs[DirNode] = NoObj /\ DirNode \notin l.rejected
      dirFails == dirOpen /\ Range(SubNodes) \cap l.rejected # {}
      dirDone == dirOpen /\ ~dirFails /\ \A n \in Range(SubNodes) : l.objs[n] # NoObj
      l1 == IF dirFails THEN [l EXCEPT !.rejected = @ \cup {DirNode}]
            ELSE IF dirDone
            THEN [l EXCEPT !.objs[DirNode] =
                             DirObj(DirNode,
                                    AddFiles(<<>>, PromiseAll(SubNodes, l.settled, l.objs))),
                           !.settled = Append(@, DirNode)]
            ELSE l
      topFails == l1.pc = "loading" /\ Range(TopNodes) \cap l1.rejected # {}
      topDone == l1.pc = "loading" /\ ~topFails
                   /\ \A n \in Range(TopNodes) : l1.objs[n] # NoObj
  IN IF topFails THEN [l1 EXCEPT !.pc = "failed"]
     ELSE IF topDone
     THEN [l1 EXCEPT !.pc = "done",
                     !.project.children =
                        AddFiles(@, PromiseAll(TopNodes, l1.settled, l1.objs))]
     ELSE l1

\* loadProject is called: project.name is set and deserialize walks the
\* whole tree, creating the files with inline or null data and issuing the
\* fetch of every other file
LoadProject(data) ==
  /\ load.pc = "idle"
  /\ LET fetchNodes == {n \in FileNodes : BranchOf(data[n]) = "fetch"}
         now == SelectSeq(FileOrder, LAMBDA n : n \notin fetchNodes)
     IN load' = Settle(
          [load EXCEPT
             !.pc = "loading",
             !.data = data,
             !.project.name = JsonName,
             !.requests = {Url(n) : n \in fetchNodes},
             !.pending = fetchNodes,
             !.settled = now,
             !.objs = [n \in Nodes |->
                         IF n \in Range(now)
                         THEN FileObj(n, IF BranchOf(data[n]) = "inline"
                                         THEN data[n] ELSE Str(""))
                         ELSE NoObj]])
  /\ UNCHANGED <<binding, call, flavor, tree, compile>>

\* the fetch of file n and request.text() succeed: file.setData(text)
ContentArrives(n) ==
  /\ n \in load.pending
  /\ load' = Settle(
       [load EXCEPT !.pending = @ \ {n},
                    !.objs[n] = FileObj(n, ServerText(Url(n))),
                    !.settled = Append(@, n)])
  /\ UNCHANGED <<binding, call, flavor, tree, compile>>

\* the fetch of file n rejects, or request.text() does
ContentFails(n) ==
  /\ n \in load.pending
  /\ load' = Settle([load EXCEPT !.pending = @ \ {n}, !.rejected = @ \cup {n}])
  /\ UNCHANGED <<binding, call, flavor, tree, compile>>

InitLoad == load = IdleLoad

Init ==
  /\ binding = [e \in Engines |-> 0]
  /\ call = [c \in Calls |-> IdleCall]
  /\ flavor = "vanilla"
  /\ \E name \in SrcNames, data \in SrcData : tree = <<SourceFile(name, data)>>
  /\ InitCompile
  /\ InitLoad

Next ==
  \/ \E c \in Calls, op \in Ops, name \in SrcNames, data \in SrcData : Start(c, op, name, data)
  \/ \E c \in Calls, uri \in Uris : LazyLoad(c, uri)
  \/ \E c \in Calls : FetchRejects(c)
  \/ \E c \in Calls : FetchResolves(c)
  \/ \E c \in Calls, ok \in BOOLEAN : Evaluate(c, ok)
  \/ \E c \in Calls : Resume(c)

Spec == Init /\ [][Next]_vars

(***************************************************************************)
(* Claims about the loading of the engines (checked under Spec)            *)
(***************************************************************************)
\* a call whose load is in flight: its fetch is issued and the then-callback
\* of Service.lazyLoad has not run yet
InFlight(c) == call[c].pc \in {"fetching", "evaluating"}

\* C1: operations that need the same engine and are started while it is not
\* bound share one load: no two calls have each issued a fetch of their own
\* for the same engine with both loads in flight (one fetch, one evaluation).
C1_OneLoadInFlight ==
  \A c, d \in Calls :
    (c # d /\ InFlight(c) /\ InFlight(d) /\ call[c].fetched /\ call[d].fetched)
      => call[c].uri # call[d].uri

\* C2: once an engine global is written, no step clears it or writes it again
\* with another instance.
C2_BoundOnce ==
  [][\A e \in Engines : binding[e] # 0 => binding'[e] = binding[e]]_vars

\* C3: a call made when its engine is already loaded issues no fetch and
\* evaluates nothing.
C3_NoFetchWhenReady ==
  \A c \in Calls :
    (call[c].op \in Ops /\ call[c].readyAtStart)
      => (~call[c].fetched /\ ~call[c].evaluated)

C3_Witness ==
  \E c, d \in Calls :
    /\ call[c].pc = "done" /\ call[c].fetched
    /\ call[d].pc = "done" /\ call[d].readyAtStart
    /\ call[c].op \in Ops /\ call[d].op \in Ops
    /\ EngineOf(call[c].op) = EngineOf(call[d].op)

C11_FixedFlavor ==
  /\ \A c \in Calls :
       (call[c].op = "compileMarkdownToHtml" /\ call[c].pc = "done")
         => call[c].out = Html(call[c].data, "github", TRUE)
  /\ \A c, d \in Calls :
       (call[c].op = "compileMarkdownToHtml" /\ call[c].pc = "done"
          /\ call[d].op = "compileMarkdownToHtml" /\ call[d].pc = "done"
          /\ call[c].data = call[d].data)
         => call[c].out = call[d].out

\* C12: an assemble call whose text fails validation fails in the engine at
\* validate: toBinary is not reached and no file is created by the call.
C12_InvalidWatFails ==
  \A c \in Calls :
    (call[c].op = "assembleWatWithWabt" /\ call[c].data = "invalid"
       /\ call[c].pc \in {"done", "failed"} /\ call[c].err # "load")
      => /\ call[c].pc = "failed"
         /\ call[c].err = "engine"
         /\ call[c].steps # <<>>
         /\ call[c].steps[Len(call[c].steps)] = "validate"
         /\ "toBinary" \notin Range(call[c].steps)
         /\ \A i \in DOMAIN tree : tree[i].by # c

C12_Witness ==
  \E c \in Calls :
    /\ call[c].op = "assembleWatWithWabt" /\ call[c].data = "invalid"
    /\ call[c].pc = "failed" /\ call[c].err = "engine"
    /\ call[c].steps = <<"parseWat", "resolveNames", "validate">>
    /\ Len(tree) = 1

\* C13: the step in which a tree-writing post-processor succeeds adds exactly
\* one file under the source's parent, named source name + ".wat", ".wat",
\* ".wasm" or ".asm.js", holding the transform's output for the source's
\* content.
C13_OneNewSibling ==
  [][\A c \in Calls :
       (call[c].pc # "done" /\ call'[c].pc = "done" /\ call'[c].op \in TreeOps)
         => /\ Len(tree') = Len(tree) + 1
            /\ SubSeq(tree', 1, Len(tree)) = tree
            /\ LET f == tree'[Len(tree')]
                   op == call'[c].op
               IN /\ f.name = tree[1].name \o
                       (CASE op = "disassembleWasmWithWabt" -> ".wat"
                          [] op = "disassembleWasmWithBinaryen" -> ".wat"
                          [] op = "assembleWatWithWabt" -> ".wasm"
                          [] op = "convertWasmToAsmWithBinaryen" -> ".asm.js")
                  /\ f.data = <<op, tree[1].data>>
                  /\ f.data = call'[c].out]_vars

C13_Witness ==
  /\ Len(tree) = 3
  /\ tree[2].name = "main.wasm" /\ tree[2].data = <<"assembleWatWithWabt", "good">>
  /\ tree[3].name = "main.asm.js"
  /\ tree[3].data = <<"convertWasmToAsmWithBinaryen", "good">>

\* C14: no step of a convertWasmToAsmWithBinaryen call, succeeding or failing,
\* changes the source file: its content, its name and its place under its
\* parent stay as they were.
C14_SourceUnchanged ==
  [][\A c \in Calls :
       (call'[c].op = "convertWasmToAsmWithBinaryen" /\ call'[c] # call[c])
         => /\ tree'[1] = tree[1]
            /\ Len(tree') >= Len(tree)
            /\ SubSeq(tree', 1, Len(tree)) = tree]_vars

C14_Witness ==
  /\ \E c \in Calls :
       /\ call[c].op = "convertWasmToAsmWithBinaryen" /\ call[c].pc = "done"
       /\ \E i \in DOMAIN tree : tree[i].by = c /\ tree[i].data = call[c].out
  /\ tree[1] = SourceFile("main", "good")

\* C15: a Service.lazyLoad call with a uri other than the three known ones
\* fails at once: it issues no fetch, evaluates nothing and changes no
\* engine global.
C15_UnknownUriFails ==
  [][\A c \in Calls :
       (call'[c].op = "lazyLoad"
          /\ call'[c].uri \notin {"lib/libwabt.js", "lib/showdown.min.js",
                                  "lib/binaryen.js"})
         => /\ call'[c].pc = "failed"
            /\ ~call'[c].fetched /\ ~call'[c].evaluated
            /\ (call[c].pc = "idle" => binding' = binding)]_vars

C15_Witness ==
  \E c \in Calls :
    /\ call[c].op = "lazyLoad" /\ call[c].uri = "lib/unknown.js"
    /\ call[c].pc = "failed" /\ call[c].err = "uri"
    /\ \E e \in Engines : binding[e] # 0

\* C16: a post-processor uses its engine only while the engine's global is
\* set: no call reaches the engine with the global undefined, and a call
\* whose load failed has reached no engine statement.
C16_EngineOnlyWhenReady ==
  \A c \in Calls :
    /\ call[c].err # "unbound"
    /\ call[c].steps # <<>> => call[c].inst # 0
    /\ call[c].err = "load" => (call[c].steps = <<>> /\ call[c].inst = 0)

C16_Witness ==
  \E c, d \in Calls :
    /\ call[c].op \in Ops /\ call[c].op = call[d].op
    /\ call[c].err = "load" /\ call[c].steps = <<>>
    /\ call[d].pc = "done" /\ call[d].fetched /\ call[d].steps # <<>>
    /\ call[d].inst = d

\* C17: a tree-writing post-processor that failed has added no file under
\* the source's parent.
C17_FailureAddsNoFile ==
  \A c \in Calls :
    (call[c].op \in TreeOps /\ call[c].pc = "failed")
      => \A i \in DOMAIN tree : tree[i].by # c

NextCompile ==
  \/ \E entry \in Entries, from \in FromLanguages, to \in ToLanguages :
       CompileCall(entry, from, to)
  \/ ServiceResolves
  \/ ServiceRejects
  \/ CompileRejects
  \/ \E result \in Responses : CompileAnswers(result)

SpecCompile == Init /\ [][NextCompile]_vars

(***************************************************************************)
(* Claims about the compile calls (checked under SpecCompile)              *)
(***************************************************************************)
\* C5: a compile call whose target is not wasm fails before
\* createCompilerService is called and before any request is sent.
C5_UnsupportedTargetFailsFirst ==
  (compile.pc # "idle" /\ compile.to # Wasm)
    => (compile.pc = "failed" /\ ~compile.serviceRequested /\ ~compile.sent)

\* C6: when the backend answers success = false, the call fails with the
\* response's console text as its message and returns no mapping, whatever
\* items holds.
C6_FailureCarriesConsole ==
  (compile.answered /\ ~compile.resp.success)
    => /\ compile.pc = "failed"
       /\ compile.error = compile.resp.console
       /\ compile.files = Undefined
       /\ compile.value = Undefined

C6_Witness ==
  /\ compile.answered /\ ~compile.resp.success
  /\ compile.resp.console # ""
  /\ compile.resp.items # Undefined
  /\ \E n \in DOMAIN compile.resp.items : Truthy(compile.resp.items[n].content)
  /\ compile.pc = "failed"

\* C7: the mapping compileFiles returns has exactly the names of the items
\* whose content is present, each with that content; only items with
\* absent content are dropped.
C7_PresentContentKept ==
  (compile.pc = "done" /\ compile.entry = "compileFiles")
    => /\ DOMAIN compile.value =
            {n \in DOMAIN compile.resp.items :
               compile.resp.items[n].content # Undefined}
       /\ \A n \in DOMAIN compile.value :
            compile.value[n] = compile.resp.items[n].content

\* C8: once compileFiles has returned a mapping, compileFileWithBindings
\* does not fail; its result has a primary exactly when the mapping has
\* "a.wasm" and a companion exactly when it has "wasm_bindgen.js", each with
\* the mapping's content, and compileFile returns the primary.
C8_ResolverFollowsMapping ==
  (compile.entry \in {"compileFileWithBindings", "compileFile"}
     /\ compile.answered /\ compile.resp.success /\ compile.resp.items # Undefined)
    => /\ compile.pc = "done"
       /\ compile.files # Undefined
       /\ LET out == compile.value
              m == compile.files IN
          IF compile.entry = "compileFile"
          THEN out = (IF expectedOutputFilename \in DOMAIN m
                      THEN m[expectedOutputFilename] ELSE Undefined)
          ELSE /\ DOMAIN out \subseteq {"wasm", "wasmBindgenJs"}
               /\ (out["wasm"] # Undefined) <=> (expectedOutputFilename \in DOMAIN m)
               /\ (expectedOutputFilename \in DOMAIN m)
                    => out["wasm"] = m[expectedOutputFilename]
               /\ ("wasmBindgenJs" \in DOMAIN out)
                    <=> (expectedWasmBindgenJsFilename \in DOMAIN m)
               /\ (expectedWasmBindgenJsFilename \in DOMAIN m)
                    => out["wasmBindgenJs"] = m[expectedWasmBindgenJsFilename]

C8_Witness ==
  /\ compile.pc = "done" /\ compile.entry = "compileFileWithBindings"
  /\ DOMAIN compile.files = {expectedOutputFilename, "a.wasm.map"}
  /\ DOMAIN compile.value = {"wasm"}
  /\ compile.value["wasm"] = Buf("")

NextProject ==
  \/ \E data \in [FileNodes -> DataValues] : LoadProject(data)
  \/ \E n \in FileNodes : ContentArrives(n)
  \/ \E n \in FileNodes : ContentFails(n)

SpecProject == Init /\ [][NextProject]_vars

(***************************************************************************)
(* Claims about loadProject (checked under SpecProject)                    *)
(***************************************************************************)
NamesOf(children) == [i \in DOMAIN children |-> children[i].name]
Before(q, a, b) ==
  \E i, j \in DOMAIN q : i < j /\ q[i] = a /\ q[j] = b

\* C9: the children attached to the directory and to the project are in the
\* order of the input children arrays, in whatever order the fetches end.
C9_ChildrenInInputOrder ==
  /\ load.objs[DirNode] # NoObj
       => NamesOf(load.objs[DirNode].children)
            = [i \in DOMAIN SubNodes |-> NodeName(SubNodes[i])]
  /\ load.pc = "done" => NamesOf(load.project.children) = TopNames

\* the load is complete and, at the top level and in the directory, a later
\* sibling's content arrived before an earlier sibling's
C9_Witness ==
  /\ load.pc = "done"
  /\ {TopNodes[1], TopNodes[3], SubNodes[1], SubNodes[2]} \cap load.pending = {}
  /\ Url(TopNodes[1]) \in load.requests /\ Url(TopNodes[3]) \in load.requests
  /\ Url(SubNodes[1]) \in load.requests /\ Url(SubNodes[2]) \in load.requests
  /\ Before(load.settled, TopNodes[3], TopNodes[1])
  /\ Before(load.settled, SubNodes[2], SubNodes[1])
  /\ Before(load.settled, TopNodes[3], DirNode)

\* C10: a file whose data is present and not null gets that data and no
\* fetch; a file whose data is null gets empty content and no fetch; only a
\* file whose data is absent is fetched, from base path + "/" + name.
C10_DataDecidesFetch ==
  load.pc # "idle" =>
    \A n \in FileNodes :
      LET d == load.data[n] IN
      /\ d \notin {Undefined, Null}
           => (Url(n) \notin load.requests /\ load.objs[n] = FileObj(n, d))
      /\ d = Null
           => (Url(n) \notin load.requests /\ load.objs[n] = FileObj(n, Str("")))
      /\ d = Undefined
           => /\ Url(n) \in load.requests
              /\ load.objs[n] \in {NoObj, FileObj(n, ServerText(Url(n)))}

\* C18: loadProject attaches the top-level children all or nothing: once a
\* content fetch has failed, the call has failed and the project has no
\* children; children are in the project only when every fetch of the tree
\* has ended successfully.
C18_AllOrNothing ==
  /\ load.rejected # {} => (load.pc = "failed" /\ load.project.children = <<>>)
  /\ load.project.children # <<>>
       => (load.pc = "done" /\ load.pending = {} /\ load.rejected = {}
             /\ \A n \in Nodes : load.objs[n] # NoObj)

\* one fetch failed, the others ended successfully, nothing was attached
C18_Witness ==
  /\ load.pc = "failed"
  /\ load.pending = {}
  /\ load.rejected = {SubNodes[1], DirNode}
  /\ Cardinality(load.requests) = Cardinality(FileNodes)
  /\ load.project.children = <<>>
  /\ load.project.name = JsonName

(***************************************************************************)
(* Termination                                                             *)
(* The three groups of operations share no state: every action of a group  *)
(* leaves the variables of the other two unchanged. A behaviour of SpecLive *)
(* therefore runs the operations of one group, in every interleaving       *)
(* within the group; the two groups that never read the source file are    *)
(* followed from one of the initial states, which differ in that file      *)
(* only. The fairness conditions are the premise that every issued request *)
(* gets a response (it resolves or rejects) and that the event loop runs   *)
(* every continuation a settled promise has scheduled.                     *)
(***************************************************************************)
CallsIdle == \A c \in Calls : call[c].pc = "idle"
CompileIdle == compile.pc = "idle"
LoadIdle == load.pc = "idle"

NextLive ==
  \/ CompileIdle /\ LoadIdle /\ Next
  \/ CallsIdle /\ LoadIdle /\ tree[1].data = "good" /\ NextCompile
  \/ CallsIdle /\ CompileIdle /\ tree[1].data = "good" /\ NextProject

Fairness ==
  /\ \A c \in Calls : WF_vars(FetchResolves(c) \/ FetchRejects(c))
  /\ \A c \in Calls : WF_vars(\E ok \in BOOLEAN : Evaluate(c, ok))
  /\ \A c \in Calls : WF_vars(Resume(c))
  /\ WF_vars(ServiceResolves \/ ServiceRejects)
  /\ WF_vars(CompileRejects \/ \E result \in Responses : CompileAnswers(result))
  /\ \A n \in FileNodes : WF_vars(ContentArrives(n) \/ ContentFails(n))

SpecLive == Init /\ [][NextLive]_vars /\ Fairness

\* C19: when every issued request gets a response, every started operation
\* (a load, a post-processor call, a compile call, loadProject) ends: it
\* completes or fails, and no fetch it issued is left pending.
C19_EveryOperationEnds ==
  /\ \A c \in Calls :
       (call[c].pc # "idle") ~> (call[c].pc \in {"done", "failed"})
  /\ (compile.pc # "idle") ~> (compile.pc \in {"done", "failed"})
  /\ (load.pc # "idle") ~> (load.pc \in {"done", "failed"} /\ load.pending = {})

\* two calls that loaded the same engine at the same time have both ended,
\* one of them after the other's load had bound the engine
C19_Witness ==
  \E c, d \in Calls :
    /\ c # d /\ call[c].uri = call[d].uri
    /\ call[c].fetched /\ call[d].fetched
    /\ ~call[c].retry /\ ~call[d].retry
    /\ call[c].pc = "done" /\ call[d].pc = "done"
    /\ call[c].inst # c

====
